---- MODULE Spec2Model ----
(***************************************************************************)
(* Model of BaseLandmarkerApp (src/computer_vision/landmarks/base.py):     *)
(* one pipeline instance, its frame source self.cap, its History Buffer    *)
(* self.history, and the generator objects created by run().               *)
(*                                                                         *)
(* run() contains a yield, so calling it only creates a generator object;  *)
(* the body executes while the caller advances the generator.  Each        *)
(* statement of the body is one action; pc is the position of the body.    *)
(* Time is counted in clock ticks of 1/Resolution millisecond.             *)
(***************************************************************************)
EXTENDS Integers, Sequences, FiniteSets, TLC

\* ---- bounds ----
MaxHistory  == 2    \* frames are fetched successfully only while Len(history) < MaxHistory
MaxClock    == 1    \* largest reading of time.time(), in ticks
MaxLayers   == 2    \* length of connections_list / drawing_specs_list
MaxRuns     == 2    \* calls of run() on the instance
Resolution  == 3    \* clock ticks per millisecond

\* ---- program constants ----
ESC     == 27       \* ord("\x1b")
KeyMask == 256      \* & 0xFF keeps the low 8 bits
NoKey   == -1       \* cv2.waitKey returns -1 when no key was pressed

\* raw key codes the poll may return: none, ESC, and a code whose low byte is ESC
Keys == {NoKey, ESC, KeyMask + ESC}

\* ---- detector output ----
\* a landmark of the tasks API carries x, y, z and visibility
SubjectA == << [x |-> 5, y |-> 5, z |-> 0, visibility |-> 1],
               [x |-> 6, y |-> 4, z |-> 0, visibility |-> 1] >>
SubjectB == << [x |-> 1, y |-> 2, z |-> 3, visibility |-> 0] >>
Subjects == {SubjectA, SubjectB}

Min(a, b) == IF a <= b THEN a ELSE b

SeqsUpTo(S, n) == UNION {[1..k -> S] : k \in 0..n}

\* getattr(detection_result, self.landmarks_type): zero or more distinct subjects
DetectionResults ==
    {r \in SeqsUpTo(Subjects, Cardinality(Subjects)) :
        \A i, j \in DOMAIN r : r[i] = r[j] => i = j}

VARIABLES
    cap_isOpened,       \* self.cap.isOpened()
    history,            \* self.history
    connections_list,   \* self.connections_list (subclass property)
    drawing_specs_list, \* self.drawing_specs_list (subclass property)
    pc,                 \* position of the generator body
    streamlit_mode,     \* argument of run
    runs,               \* number of run() calls so far
    clock,              \* last reading of time.time()
    t0, t,              \* locals of run
    ret,                \* local ret of run
    key,                \* cv2.waitKey(1) & 0xFF of the last poll
    detection_result,   \* getattr(detection_result, landmarks_type)
    landmark_list,      \* local landmark_list
    stamped,            \* timestamps put on the current frame by annotate_time
    draws,              \* draw_landmarks calls issued on the current frame
    shown, yielded,     \* deliveries of the current frame: cv2.imshow / yield
    fetched,            \* frames read with ret true in this run
    delivered,          \* frames shown or yielded in this run
    histStart,          \* Len(history) when this run was called
    released,           \* self.cap.release() was called in this run
    windowsClosed,      \* cv2.destroyAllWindows() was called in this run
    openPolls,          \* self.cap.isOpened() calls of this run
    keyPolls            \* cv2.waitKey(1) calls of this run

instanceVars == <<cap_isOpened, history, connections_list, drawing_specs_list>>
runVars      == <<pc, streamlit_mode, runs, clock, t0, t, ret, key, histStart,
                  released, windowsClosed, fetched, delivered, openPolls, keyPolls>>
frameVars    == <<detection_result, landmark_list, stamped, draws, shown, yielded>>
vars         == <<instanceVars, runVars, frameVars>>

\* ---- pure helpers ----

\* variant of SelectSubject: the last reported subject is taken
SelectLastSubject(landmark_list_raw) ==
    IF landmark_list_raw # <<>> THEN landmark_list_raw[Len(landmark_list_raw)] ELSE <<>>

\* landmark_list_raw[0] if landmark_list_raw else []
SelectSubject(landmark_list_raw) ==
    IF landmark_list_raw # <<>> THEN landmark_list_raw[1] ELSE <<>>

\* variant of normalize_landmark_list: the first landmark is left out
normalize_landmark_list_tail(ll) ==
    [i \in 1..(Len(ll) - 1) |-> [x |-> ll[i + 1].x, y |-> ll[i + 1].y, z |-> ll[i + 1].z]]

\* landmark_pb2.NormalizedLandmark(x=, y=, z=) for landmark in landmark_list
normalize_landmark_list(ll) ==
    [i \in 1..Len(ll) |-> [x |-> ll[i].x, y |-> ll[i].y, z |-> ll[i].z]]

\* variant of Zip: the pairing starts at the second element (range(1, n))
ZipFromSecond(a, b) ==
    [i \in 1..(Min(Len(a), Len(b)) - 1) |-> <<a[i + 1], b[i + 1]>>]

\* zip(connections_list, drawing_specs_list): stops at the shorter list
RECURSIVE Zip(_, _)
Zip(a, b) ==
    IF a = <<>> \/ b = <<>> THEN <<>>
    ELSE << <<Head(a), Head(b)>> >> \o Zip(Tail(a), Tail(b))

\* variant of annotate_landmarks: the empty-snapshot test is missing
annotate_landmarks_unguarded(conns, ll, specs) ==
    LET normalized == normalize_landmark_list(ll)
        pairs == Zip(conns, specs)
    IN  [i \in 1..Len(pairs) |->
            [connections   |-> pairs[i][1],
             drawing_specs |-> pairs[i][2],
             landmark_list |-> normalized]]

\* the draw_landmarks calls annotate_landmarks issues, in order
annotate_landmarks(conns, ll, specs) ==
    IF ll = <<>> THEN <<>>
    ELSE LET normalized == normalize_landmark_list(ll)
             pairs == Zip(conns, specs)
         IN  [i \in 1..Len(pairs) |->
                 [connections   |-> pairs[i][1],
                  drawing_specs |-> pairs[i][2],
                  landmark_list |-> normalized]]

\* f"{timestamp:.3f}s": the time rounded to whole milliseconds
FormatTime(ts) == (2 * ts + Resolution) \div (2 * Resolution)

\* cv2.waitKey(1) & 0xFF
MaskKey(k) == k % KeyMask

\* the lists a subclass can give its two properties: k Connection Sets, k styles
ConnectionLists   == {[i \in 1..n |-> i] : n \in 0..MaxLayers}
DrawingSpecsLists == {[i \in 1..n |-> 10 + i] : n \in 0..MaxLayers}

\* ---- initial state: after __init__ ----
\* an instance of a subclass that pairs MaxLayers Connection Sets with as many styles
Init ==
    /\ cap_isOpened \in BOOLEAN         \* cv2.VideoCapture(0) may fail to open
    /\ history = <<>>
    /\ connections_list = [i \in 1..MaxLayers |-> i]
    /\ drawing_specs_list = [i \in 1..MaxLayers |-> 10 + i]
    /\ pc = "idle"
    /\ streamlit_mode = FALSE
    /\ runs = 0
    /\ clock = 0
    /\ t0 = 0 /\ t = 0
    /\ ret = TRUE
    /\ key = MaskKey(NoKey)
    /\ detection_result = <<>>
    /\ landmark_list = <<>>
    /\ stamped = <<>>
    /\ draws = <<>>
    /\ shown = 0 /\ yielded = 0
    /\ fetched = 0 /\ delivered = 0
    /\ histStart = 0
    /\ released = FALSE
    /\ windowsClosed = FALSE
    /\ openPolls = 0 /\ keyPolls = 0

\* no generator is executing or suspended
Finished == pc \in {"idle", "done", "raised", "closed"}

\* ---- the caller ----

\* run(streamlit_mode): creates the generator object; no statement of the body runs
CallRun(mode) ==
    /\ Finished
    /\ runs < MaxRuns
    /\ runs' = runs + 1
    /\ streamlit_mode' = mode
    /\ pc' = "created"
    /\ histStart' = Len(history)
    /\ fetched' = 0 /\ delivered' = 0
    /\ released' = FALSE /\ windowsClosed' = FALSE
    /\ openPolls' = 0 /\ keyPolls' = 0
    /\ ret' = TRUE /\ key' = MaskKey(NoKey)
    /\ detection_result' = <<>> /\ landmark_list' = <<>>
    /\ stamped' = <<>> /\ draws' = <<>> /\ shown' = 0 /\ yielded' = 0
    /\ UNCHANGED <<instanceVars, clock, t0, t>>

\* first next() on the generator: t0 = time.time()
Start ==
    /\ pc = "created"
    /\ \E now \in clock..MaxClock :
          /\ clock' = now
          /\ t0' = now
    /\ pc' = "loop"
    /\ UNCHANGED <<instanceVars, frameVars, streamlit_mode, runs, t, ret, key,
                   histStart, released, windowsClosed, fetched, delivered,
                   openPolls, keyPolls>>

\* next() on the generator suspended at the yield
Resume ==
    /\ pc = "yielded"
    /\ pc' = "waitkey"
    /\ UNCHANGED <<instanceVars, frameVars, streamlit_mode, runs, clock, t0, t,
                   ret, key, histStart, released, windowsClosed, fetched, delivered,
                   openPolls, keyPolls>>

\* close() (or collection) of the generator suspended at the yield:
\* GeneratorExit is raised at the yield and no statement of the body handles it
Close ==
    /\ pc = "yielded"
    /\ pc' = "closed"
    /\ UNCHANGED <<instanceVars, frameVars, streamlit_mode, runs, clock, t0, t,
                   ret, key, histStart, released, windowsClosed, fetched, delivered,
                   openPolls, keyPolls>>

\* ---- the body of run ----

\* while self.cap.isOpened():
LoopTest ==
    /\ pc = "loop"
    /\ openPolls' = openPolls + 1
    /\ pc' = IF cap_isOpened THEN "read" ELSE "release"
    /\ UNCHANGED <<instanceVars, frameVars, streamlit_mode, runs, clock, t0, t,
                   ret, key, histStart, released, windowsClosed, fetched, delivered, keyPolls>>

\* ret, frame = self.cap.read(); if not ret: break; image = mp.Image(...)
Read ==
    /\ pc = "read"
    /\ \E r \in BOOLEAN :
          /\ r => Len(history) < MaxHistory
          /\ ret' = r
          /\ IF r
             THEN /\ pc' = "detect"
                  /\ fetched' = fetched + 1
                  /\ detection_result' = <<>> /\ landmark_list' = <<>>
                  /\ stamped' = <<>> /\ draws' = <<>>
                  /\ shown' = 0 /\ yielded' = 0
             ELSE /\ pc' = "release"
                  /\ UNCHANGED <<fetched, frameVars>>
    /\ UNCHANGED <<instanceVars, streamlit_mode, runs, clock, t0, t, key,
                   histStart, released, windowsClosed, delivered,
                   openPolls, keyPolls>>

\* detection_result = self.landmarker.detect(image); landmark_list = first subject
Detect ==
    /\ pc = "detect"
    /\ \E raw \in DetectionResults :
          /\ detection_result' = raw
          /\ landmark_list' = SelectSubject(raw)
    /\ pc' = "record"
    /\ UNCHANGED <<instanceVars, streamlit_mode, runs, clock, t0, t, ret, key,
                   histStart, released, windowsClosed, fetched, delivered,
                   stamped, draws, shown, yielded,
                   openPolls, keyPolls>>

\* variant of DetectRaises: the exception is swallowed and the loop goes on
DetectFailureSkipsFrame ==
    /\ pc = "detect"
    /\ pc' = "loop"
    /\ UNCHANGED <<instanceVars, frameVars, streamlit_mode, runs, clock, t0, t,
                   ret, key, histStart, released, windowsClosed, fetched, delivered,
                   openPolls, keyPolls>>

\* self.landmarker or detect raises: the exception leaves the generator
DetectRaises ==
    /\ pc = "detect"
    /\ pc' = "raised"
    /\ UNCHANGED <<instanceVars, frameVars, streamlit_mode, runs, clock, t0, t,
                   ret, key, histStart, released, windowsClosed, fetched, delivered,
                   openPolls, keyPolls>>

\* variant of HistoryAfter: the new entry is inserted at the front
HistoryInsertFront(mode, h, ts, ll) == <<[time |-> ts, landmarks |-> ll]>> \o h

\* variant of HistoryAfter: an entry is recorded in blocking-display mode only
HistoryBlockingOnly(mode, h, ts, ll) ==
    IF mode THEN h ELSE Append(h, [time |-> ts, landmarks |-> ll])

\* self.history after the append of the current frame (the same in both modes)
HistoryAfter(mode, h, ts, ll) == Append(h, [time |-> ts, landmarks |-> ll])

\* variant of Elapsed: the operands are swapped
ElapsedSwapped(now, start) == start - now

\* variant of Elapsed: the time is not taken relative to the start of the loop
ElapsedSinceConstruction(now, start) == now

\* time.time() - t0
Elapsed(now, start) == now - start

\* t = time.time() - t0; self.history.append({"time": t, "landmarks": landmark_list})
Record ==
    /\ pc = "record"
    /\ \E now \in clock..MaxClock :
          /\ clock' = now
          /\ t' = Elapsed(now, t0)
          /\ history' = HistoryAfter(streamlit_mode, history, Elapsed(now, t0), landmark_list)
    /\ pc' = "annotate_time"
    /\ UNCHANGED <<cap_isOpened, connections_list, drawing_specs_list, frameVars,
                   streamlit_mode, runs, t0, ret, key, histStart, released,
                   windowsClosed, fetched, delivered,
                   openPolls, keyPolls>>

\* self.annotate_time(image=annotated_image, timestamp=t)
AnnotateTime ==
    /\ pc = "annotate_time"
    /\ stamped' = Append(stamped, FormatTime(t))
    /\ pc' = "annotate_landmarks"
    /\ UNCHANGED <<instanceVars, streamlit_mode, runs, clock, t0, t, ret, key,
                   histStart, released, windowsClosed, fetched, delivered,
                   detection_result, landmark_list, draws, shown, yielded,
                   openPolls, keyPolls>>

\* cv2.putText raises
AnnotateTimeRaises ==
    /\ pc = "annotate_time"
    /\ pc' = "raised"
    /\ UNCHANGED <<instanceVars, frameVars, streamlit_mode, runs, clock, t0, t,
                   ret, key, histStart, released, windowsClosed, fetched, delivered,
                   openPolls, keyPolls>>

\* variant of AnnotateLandmarks: the key is polled before the frame is delivered
AnnotateLandmarksThenPoll ==
    /\ pc = "annotate_landmarks"
    /\ draws' = annotate_landmarks(connections_list, landmark_list, drawing_specs_list)
    /\ pc' = "waitkey"
    /\ UNCHANGED <<instanceVars, streamlit_mode, runs, clock, t0, t, ret, key,
                   histStart, released, windowsClosed, fetched, delivered,
                   detection_result, landmark_list, stamped, shown, yielded,
                   openPolls, keyPolls>>

\* self.annotate_landmarks(image, connections_list, landmark_list, drawing_specs_list)
AnnotateLandmarks ==
    /\ pc = "annotate_landmarks"
    /\ draws' = annotate_landmarks(connections_list, landmark_list, drawing_specs_list)
    /\ pc' = "deliver"
    /\ UNCHANGED <<instanceVars, streamlit_mode, runs, clock, t0, t, ret, key,
                   histStart, released, windowsClosed, fetched, delivered,
                   detection_result, landmark_list, stamped, shown, yielded,
                   openPolls, keyPolls>>

\* the k-th draw_landmarks call raises: the calls before it have been made
AnnotateLandmarksRaises ==
    /\ pc = "annotate_landmarks"
    /\ LET all == annotate_landmarks(connections_list, landmark_list, drawing_specs_list)
       IN  \E k \in 1..Len(all) : draws' = SubSeq(all, 1, k - 1)
    /\ pc' = "raised"
    /\ UNCHANGED <<instanceVars, streamlit_mode, runs, clock, t0, t, ret, key,
                   histStart, released, windowsClosed, fetched, delivered,
                   detection_result, landmark_list, stamped, shown, yielded,
                   openPolls, keyPolls>>

\* if streamlit_mode: yield annotated_image
Yield ==
    /\ pc = "deliver"
    /\ streamlit_mode
    /\ yielded' = yielded + 1
    /\ delivered' = delivered + 1
    /\ pc' = "yielded"
    /\ UNCHANGED <<instanceVars, streamlit_mode, runs, clock, t0, t, ret, key,
                   histStart, released, windowsClosed, fetched,
                   detection_result, landmark_list, stamped, draws, shown,
                   openPolls, keyPolls>>

\* variant of Show: the display is not under the else of the streamlit_mode test
ShowInBothModes ==
    /\ pc = "deliver"
    /\ shown' = shown + 1
    /\ delivered' = delivered + 1
    /\ pc' = "waitkey"
    /\ UNCHANGED <<instanceVars, streamlit_mode, runs, clock, t0, t, ret, key,
                   histStart, released, windowsClosed, fetched,
                   detection_result, landmark_list, stamped, draws, yielded,
                   openPolls, keyPolls>>

\* else: cv2.imshow("Landmarker", annotated_image)
Show ==
    /\ pc = "deliver"
    /\ ~streamlit_mode
    /\ shown' = shown + 1
    /\ delivered' = delivered + 1
    /\ pc' = "waitkey"
    /\ UNCHANGED <<instanceVars, streamlit_mode, runs, clock, t0, t, ret, key,
                   histStart, released, windowsClosed, fetched,
                   detection_result, landmark_list, stamped, draws, yielded,
                   openPolls, keyPolls>>

\* cv2.imshow raises (no display available)
ShowRaises ==
    /\ pc = "deliver"
    /\ ~streamlit_mode
    /\ pc' = "raised"
    /\ UNCHANGED <<instanceVars, frameVars, streamlit_mode, runs, clock, t0, t,
                   ret, key, histStart, released, windowsClosed, fetched, delivered,
                   openPolls, keyPolls>>

\* variant of AfterKey: return instead of break
AfterKeyReturn(k) == IF k = ESC THEN "done" ELSE "loop"

\* variant of AfterKey: the comparison with ESC is lost
AfterKeyIgnored(k) == "loop"

\* where the body goes after the poll returned masked key k
AfterKey(k) == IF k = ESC THEN "release" ELSE "loop"

\* if cv2.waitKey(1) & 0xFF == ord("\x1b"): break
WaitKey ==
    /\ pc = "waitkey"
    /\ keyPolls' = keyPolls + 1
    /\ \E k \in Keys :
          /\ key' = MaskKey(k)
          /\ pc' = AfterKey(MaskKey(k))
    /\ UNCHANGED <<instanceVars, frameVars, streamlit_mode, runs, clock, t0, t,
                   ret, histStart, released, windowsClosed, fetched, delivered, openPolls>>

\* self.cap.release()
Release ==
    /\ pc = "release"
    /\ cap_isOpened' = FALSE
    /\ released' = TRUE
    /\ pc' = "destroy"
    /\ UNCHANGED <<history, connections_list, drawing_specs_list, frameVars,
                   streamlit_mode, runs, clock, t0, t, ret, key, histStart,
                   windowsClosed, fetched, delivered,
                   openPolls, keyPolls>>

\* cv2.destroyAllWindows(); the generator returns
DestroyAllWindows ==
    /\ pc = "destroy"
    /\ windowsClosed' = TRUE
    /\ pc' = "done"
    /\ UNCHANGED <<instanceVars, frameVars, streamlit_mode, runs, clock, t0, t,
                   ret, key, histStart, released, fetched, delivered,
                   openPolls, keyPolls>>

\* the statements of the body that return normally
Body ==
    \/ LoopTest \/ Read \/ Detect \/ Record \/ AnnotateTime \/ AnnotateLandmarks
    \/ Yield \/ Show \/ WaitKey \/ Release \/ DestroyAllWindows

Raises ==
    \/ DetectRaises \/ AnnotateTimeRaises \/ AnnotateLandmarksRaises \/ ShowRaises

Caller ==
    \/ \E mode \in BOOLEAN : CallRun(mode)
    \/ Start \/ Resume \/ Close

Next == Caller \/ Body \/ Raises

Spec == Init /\ [][Next]_vars

\* every external call returns and every started statement completes
FairSpec == Spec /\ WF_vars(Body)

\* ---- annotate_landmarks on its own ----
\* the first frame of a run has been read, recorded and stamped, and run is about
\* to call annotate_landmarks; the two lists are any a subclass can provide
InitAnnotate ==
    /\ cap_isOpened = TRUE
    /\ connections_list \in ConnectionLists
    /\ drawing_specs_list \in DrawingSpecsLists
    /\ streamlit_mode \in BOOLEAN
    /\ detection_result \in DetectionResults
    /\ landmark_list = SelectSubject(detection_result)
    /\ clock \in 0..MaxClock
    /\ t0 = 0 /\ t = Elapsed(clock, t0)
    /\ history = HistoryAfter(streamlit_mode, <<>>, t, landmark_list)
    /\ stamped = <<FormatTime(t)>>
    /\ pc = "annotate_landmarks"
    /\ runs = 1
    /\ ret = TRUE
    /\ key = MaskKey(NoKey)
    /\ draws = <<>>
    /\ shown = 0 /\ yielded = 0
    /\ fetched = 1 /\ delivered = 0
    /\ histStart = 0
    /\ released = FALSE
    /\ windowsClosed = FALSE
    /\ openPolls = 1 /\ keyPolls = 0

NextAnnotate == AnnotateLandmarks \/ AnnotateLandmarksRaises

AnnotateSpec == InitAnnotate /\ [][NextAnnotate]_vars

TypeOK ==
    /\ cap_isOpened \in BOOLEAN
    /\ pc \in {"idle", "created", "loop", "read", "detect", "record",
               "annotate_time", "annotate_landmarks", "deliver", "yielded",
               "waitkey", "release", "destroy", "done", "raised", "closed"}
    /\ Len(history) <= MaxHistory
    /\ clock \in 0..MaxClock

\* ---- positions of the body ----

\* the current frame has its history entry and has not been given up
Recorded == pc \in {"annotate_time", "annotate_landmarks", "deliver", "yielded", "waitkey"}

\* annotate_time and annotate_landmarks have returned for the current frame
Annotated == pc \in {"deliver", "yielded", "waitkey"}

\* the entries appended by the current run
RunEntries == Len(history) - histStart

\* C1: in blocking-display mode a run that ended through the loop exit (source
\* closed, read failed or ESC polled) has released the frame source and closed
\* the display.
C1_NormalExitReleases ==
    (pc = "done" /\ ~streamlit_mode) => (released /\ windowsClosed /\ ~cap_isOpened)

C1_Witness ==
    /\ pc = "done" /\ ~streamlit_mode
    /\ key = ESC /\ delivered >= 1
    /\ released /\ windowsClosed

\* C2: in blocking-display mode a run ended by an exception of the detector or
\* of a drawing call has closed the display and released the frame source.
C2_FailureReleases ==
    (pc = "raised" /\ ~streamlit_mode) => (released /\ windowsClosed /\ ~cap_isOpened)

\* C3: in blocking-display mode, at the end of a run and between iterations, the
\* run has appended as many history entries as it has delivered frames.
C3_HistoryCountsDelivered ==
    (~streamlit_mode /\ pc \in {"loop", "release", "destroy", "done", "raised"})
        => RunEntries = delivered

\* C4: the history is append-only and in arrival order: a step leaves it alone
\* or appends one entry behind the unchanged old ones; the last entry is the
\* snapshot and time of the last recorded frame, entry k of a run belongs to
\* its k-th fetched frame, and the times of a run never decrease.
C4_LastEntryIsCurrentFrame ==
    /\ RunEntries \in {fetched - 1, fetched} /\ RunEntries >= 0
    /\ Recorded =>
          /\ RunEntries = fetched
          /\ history[Len(history)] = [time |-> t, landmarks |-> landmark_list]
    /\ \A i \in (histStart + 1)..(Len(history) - 1) :
          history[i].time <= history[i + 1].time

C4_AppendStep ==
    \/ history' = history
    \/ /\ pc = "record"
       /\ Len(history') = Len(history) + 1
       /\ SubSeq(history', 1, Len(history)) = history

C5_StrictlyIncreasing ==
    \A i \in (histStart + 1)..(Len(history) - 1) :
        history[i].time < history[i + 1].time

\* C5 (amended): an entry appended behind an entry of the same run has a time
\* that is not smaller, and is greater exactly when the clock reading advanced
\* between the two frames.
C5_RecordStep ==
    (pc = "record" /\ pc' = "annotate_time" /\ RunEntries >= 1) =>
        LET prev == history[Len(history)].time
            new  == history'[Len(history')].time
        IN  /\ Len(history') = Len(history) + 1
            /\ new >= prev
            /\ (new > prev) <=> (clock' > clock)

C5_IncreasesWithClock == [][C5_RecordStep]_vars

C5_Witness ==
    /\ Recorded
    /\ RunEntries >= 2
    /\ history[Len(history)].time = history[Len(history) - 1].time

\* C6: the snapshot of the current frame, in run, in its history entry and in
\* every draw call, is the first reported subject, or empty when none is
\* reported; the detection step never ends in an error because of the count.
C6_FirstSubjectOnly ==
    LET first == IF Len(detection_result) >= 1 THEN detection_result[1] ELSE <<>>
    IN  /\ (pc = "record" \/ Recorded) => landmark_list = first
        /\ Recorded => history[Len(history)].landmarks = first
        /\ Annotated => \A i \in DOMAIN draws :
                            draws[i].landmark_list = normalize_landmark_list(first)

C6_Witness ==
    /\ pc = "deliver"
    /\ Len(detection_result) = 2
    /\ detection_result[1] # detection_result[2]
    /\ landmark_list = detection_result[1]
    /\ draws # <<>>

\* C7: a frame whose annotation has returned carries exactly one timestamp; with
\* an empty snapshot no draw call has been made, annotate_landmarks returns
\* (it does not raise) and the frame goes on to its sink.
C7_Annotated ==
    /\ Annotated => Len(stamped) = 1
    /\ (Annotated /\ landmark_list = <<>>) => draws = <<>>
    /\ pc \in {"yielded", "waitkey"} => shown + yielded = 1

C7_EmptyStep ==
    (pc = "annotate_landmarks" /\ landmark_list = <<>>) =>
        (pc' \in {"annotate_landmarks", "deliver"} /\ draws' = <<>>)

C7_TimestampAlwaysOverlayIfAny == [](C7_Annotated) /\ [][C7_EmptyStep]_vars

C7_Witness ==
    /\ pc = "waitkey" /\ shown = 1
    /\ landmark_list = <<>> /\ draws = <<>>
    /\ Len(stamped) = 1
    /\ connections_list # <<>> /\ drawing_specs_list # <<>>

\* C8 (as stated): for a non-empty snapshot every Connection Set of the
\* instance has been drawn exactly once, whatever the lengths of the two lists.
C8_EveryConnectionSetDrawnOnce ==
    (Annotated /\ landmark_list # <<>>) =>
        \A c \in DOMAIN connections_list :
            Cardinality({i \in DOMAIN draws :
                            draws[i].connections = connections_list[c]}) = 1

\* C8 (amended): for a non-empty snapshot there is exactly one draw per index
\* below the length of the shorter list, in list order, each with the
\* Connection Set and the style at that index; layers past the end of the
\* shorter list are not drawn.
C8_OneDrawPerPairedLayer ==
    (Annotated /\ landmark_list # <<>>) =>
        /\ Len(draws) = Min(Len(connections_list), Len(drawing_specs_list))
        /\ \A i \in DOMAIN draws :
              /\ draws[i].connections = connections_list[i]
              /\ draws[i].drawing_specs = drawing_specs_list[i]

C8_Witness ==
    /\ pc = "deliver" /\ landmark_list # <<>>
    /\ Len(connections_list) > Len(drawing_specs_list)
    /\ Len(draws) = Len(drawing_specs_list)
    /\ Len(draws) >= 1

\* the loop has seen its exit condition: source closed, read failed or ESC polled
StopObserved ==
    /\ pc \in {"loop", "read", "detect", "record", "annotate_time",
              "annotate_landmarks", "deliver", "yielded", "waitkey",
              "release", "destroy"}
    /\ \/ pc = "loop" /\ ~cap_isOpened
       \/ ~ret
       \/ key = ESC

\* C9: once the loop has seen its exit condition the run reaches its stopped
\* state, and from then on it fetches, records and delivers nothing.
C9_EventuallyStops ==
    /\ StopObserved ~> (pc = "done")
    /\ [][StopObserved => UNCHANGED <<fetched, history, delivered>>]_vars

C9_Witness ==
    /\ pc = "done" /\ ~ret
    /\ fetched >= 1 /\ delivered = fetched
    /\ released

C11_SinkOfTheMode ==
    /\ shown + yielded <= 1
    /\ yielded = 1 => streamlit_mode
    /\ shown = 1 => ~streamlit_mode
    /\ pc \in {"yielded", "waitkey"} => shown + yielded = 1
    /\ shown + yielded = 1 =>
          /\ Len(stamped) = 1
          /\ landmark_list # <<>> =>
                Len(draws) = Min(Len(connections_list), Len(drawing_specs_list))

C11_DeliverStep ==
    (shown' + yielded' > shown + yielded) =>
        (pc = "deliver" /\ Len(stamped) = 1 /\ shown + yielded = 0)

C11_ExactlyOneSink == [](C11_SinkOfTheMode) /\ [][C11_DeliverStep]_vars

C11_Witness ==
    /\ pc = "yielded" /\ streamlit_mode
    /\ yielded = 1 /\ shown = 0
    /\ Len(stamped) = 1 /\ draws # <<>>

\* C12: the normalized list a draw call receives has as many points as the
\* snapshot, in the same order and with the same x, y, z; annotating leaves the
\* snapshot of the history entry as it was recorded.
C12_DrawnSnapshot ==
    Annotated =>
        /\ history[Len(history)].landmarks = landmark_list
        /\ \A i \in DOMAIN draws :
              LET n == draws[i].landmark_list
              IN  /\ Len(n) = Len(landmark_list)
                  /\ \A k \in DOMAIN n :
                        /\ n[k].x = landmark_list[k].x
                        /\ n[k].y = landmark_list[k].y
                        /\ n[k].z = landmark_list[k].z

C12_AnnotateStep == (pc = "annotate_landmarks") => history' = history

C12_NormalizePreserves == [](C12_DrawnSnapshot) /\ [][C12_AnnotateStep]_vars

C12_Witness ==
    /\ pc = "deliver"
    /\ Len(landmark_list) = 2
    /\ draws # <<>>
    /\ Len(draws[1].landmark_list) = 2
    /\ Len(history[Len(history)].landmarks) = 2

\* C13: each iteration tests isOpened once, before its read, and polls the key
\* once, after its frame has been recorded, stamped and delivered; the key and
\* the decision to stop on it change at that poll only, so a key pressed
\* earlier never cuts the iteration short.
C13_PollCounts ==
    /\ pc = "read" => openPolls = fetched + 1
    /\ pc \in {"loop", "detect", "record", "annotate_time", "annotate_landmarks",
              "deliver", "yielded", "waitkey"} => openPolls = fetched
    /\ pc \in {"yielded", "waitkey", "closed"} => keyPolls = delivered - 1
    /\ pc \notin {"yielded", "waitkey", "closed"} => keyPolls = delivered

C13_PollStep ==
    /\ keyPolls' > keyPolls =>
          /\ pc = "waitkey"
          /\ keyPolls' = keyPolls + 1
          /\ shown + yielded = 1
          /\ Len(stamped) = 1
          /\ RunEntries = fetched
    /\ (key' # key /\ pc' # "created") => keyPolls' = keyPolls + 1
    /\ (key' = ESC /\ key # ESC) => pc' = "release"

C13_PolledAfterDelivery == [](C13_PollCounts) /\ [][C13_PollStep]_vars

C13_Witness ==
    /\ pc = "release" /\ key = ESC
    /\ fetched = 1 /\ delivered = 1 /\ keyPolls = 1 /\ openPolls = 1
    /\ RunEntries = 1

\* C14: when the detector raises on a frame the run is over: the frame gets no
\* history entry and reaches no sink, nothing is fetched afterwards and the
\* detection is not attempted again.
C14_DetectFailStep ==
    /\ (pc = "detect" /\ pc' # "detect" /\ pc' # "record") =>
          /\ pc' = "raised"
          /\ history' = history
          /\ fetched' = fetched /\ delivered' = delivered
          /\ shown' = 0 /\ yielded' = 0 /\ stamped' = <<>>
    /\ pc = "raised" =>
          \/ pc' = "raised" /\ history' = history /\ fetched' = fetched
                /\ delivered' = delivered
          \/ pc' = "created" /\ history' = history

C14_DetectorFailureEndsRun == [][C14_DetectFailStep]_vars

C14_Witness ==
    /\ pc = "raised"
    /\ fetched = 2 /\ RunEntries = 1 /\ delivered = 1
    /\ stamped = <<>> /\ shown = 0 /\ yielded = 0
    /\ cap_isOpened

\* C15: in blocking-display mode the call of run drives the loop by itself: when
\* the call has returned and the caller has not iterated over its value, the
\* loop has run and the frame source is released.
C15_CallDrivesLoop ==
    (~streamlit_mode /\ pc = "created") => (released /\ windowsClosed)

\* C16: in streamlit mode a run that has ended, by the loop exit or by the close
\* of the generator suspended at a yielded frame, has released the frame source
\* and closed the display.
C16_StreamlitEndReleases ==
    (streamlit_mode /\ pc \in {"done", "closed"}) =>
        (released /\ windowsClosed /\ ~cap_isOpened)

\* the frame of the current iteration carries its timestamp
Stamped == pc \in {"annotate_landmarks", "deliver", "yielded", "waitkey"}

C18_LaterRunAppendsNothing ==
    (runs >= 2 /\ histStart >= 1) => RunEntries = 0
====
